---- MODULE Spec2Model ----
(***************************************************************************)
(* Model of "GitHub Desktop/_addnl.py": the command-line entry point and   *)
(* insert_lines_to_files, which prepends two line terminators to every     *)
(* .txt / .md regular file directly inside a target directory.             *)
(*                                                                         *)
(* File contents are sequences of byte values; text in memory is a         *)
(* sequence of one-character strings.  Paths are sequences of characters,  *)
(* relative to the target directory.  The file system, the console and the *)
(* removal of files by other processes are the environment: open(), read() *)
(* and write() can raise, nondeterministically and within a fault budget.  *)
(* A print that shows a file name raises UnicodeEncodeError when the name  *)
(* holds a character the console encoding cannot express; the prints of    *)
(* fixed text succeed.  The interpreter is one that accepts the source     *)
(* (backslashes inside f-string expressions, Python 3.12 or later).        *)
(* Directory entries are distinct files (no hard links or symbolic links   *)
(* that make two paths share one content).                                 *)
(***************************************************************************)
EXTENDS Integers, Sequences, FiniteSets, TLC

VARIABLES
  platform,          \* host platform, decides os.linesep
  newline_type,      \* args.newline
  target,            \* what args.directory names
  fs,                \* path -> [kind, content]
  pc,                \* position of the process
  nl,                \* resolved terminator (text)
  pending,           \* entries of os.listdir not yet iterated
  filename,          \* loop variable
  original_content,  \* text read from the current file
  processed_files,   \* the run counter
  exitcode,          \* process exit status once pc = "exit"
  crash,             \* the line an uncaught exception came from, or "none"
  reported,          \* count printed by the summary, -1 before it
  before,            \* fs when the current run started
  orig,              \* fs when the first run started
  listed,            \* TRUE once os.listdir has returned in this run
  visits,            \* per path: loop iterations in this run
  opens,             \* per path: open() calls in this run
  wrote,             \* per path: completed writes in this run
  cut,               \* per path: truncated by open(..., 'w') without a completed write
  counted,           \* per path: increments of processed_files in this run
  ioerr,             \* per path: an OSError hit this file in this run
  rewrites,          \* per path: completed writes over all runs
  damaged,           \* per path: ever truncated without a completed write
  runs,              \* number of runs started
  faults             \* environment failures injected so far

vars == <<platform, newline_type, target, fs, pc, nl, pending, filename,
          original_content, processed_files, exitcode, crash, reported,
          before, orig, listed, visits, opens, wrote, cut, counted, ioerr,
          rewrites, damaged, runs, faults>>

----------------------------------------------------------------------------
\* Bounds of the model.

\* Total number of tokens (a character or a line terminator) in the files of
\* the target directory.
MaxTokens == 1

\* Number of entries directly inside the target directory.
MaxEntries == 2

\* Number of times the program is run on the same directory.
MaxRuns == 2

\* Number of environment failures (I/O errors and removals).
MaxFaults == 1

----------------------------------------------------------------------------
\* Text, bytes and names.

\* The code points of the characters used, as ord() gives them.
Ord == ("\n" :> 10) @@ ("\r" :> 13) @@ ("h" :> 104)

\* bytes.decode('utf-8') on the bytes used here: a byte below 128 is the
\* character with that code point, any other byte is invalid.
Decodable(bytes) == \A i \in 1..Len(bytes) : bytes[i] < 128

Utf8Decode(bytes) ==
  [i \in 1..Len(bytes) |-> CHOOSE c \in DOMAIN Ord : Ord[c] = bytes[i]]

\* str.encode('utf-8') on the characters used here.
Utf8Encode(text) == [i \in 1..Len(text) |-> Ord[text[i]]]

\* Universal-newlines translation of text read with newline=None:
\* "\r\n" and a lone "\r" both become "\n".
RECURSIVE TranslateOnRead(_)
TranslateOnRead(text) ==
  IF text = <<>> THEN <<>>
  ELSE IF Head(text) = "\r"
       THEN IF Len(text) >= 2 /\ text[2] = "\n"
            THEN <<"\n">> \o TranslateOnRead(SubSeq(text, 3, Len(text)))
            ELSE <<"\n">> \o TranslateOnRead(Tail(text))
       ELSE <<Head(text)>> \o TranslateOnRead(Tail(text))

\* os.linesep
Linesep(p) == IF p = "nt" THEN <<"\r", "\n">> ELSE <<"\n">>

\* What a text stream opened with newline=None writes for each "\n".
RECURSIVE TranslateToLinesep(_, _)
TranslateToLinesep(text, p) ==
  IF text = <<>> THEN <<>>
  ELSE IF Head(text) = "\n"
       THEN Linesep(p) \o TranslateToLinesep(Tail(text), p)
       ELSE <<Head(text)>> \o TranslateToLinesep(Tail(text), p)

\* A write through a stream opened without newline='': every "\n" is
\* replaced by os.linesep.
BytesWrittenTranslated(text, p) == Utf8Encode(TranslateToLinesep(text, p))

\* The bytes f.write(text) stores through open(filepath, 'w',
\* encoding='utf-8', newline=''): no translation of line endings.
BytesWritten(text, p) == Utf8Encode(text)

\* The text f.read() returns through open(filepath, 'r', encoding='utf-8').
TextRead(bytes) == TranslateOnRead(Utf8Decode(bytes))

\* str.lower() on the characters of the names used.
LowerChar(c) ==
  CASE c = "N" -> "n"
    [] c = "T" -> "t"
    [] c = "X" -> "x"
    [] c = "M" -> "m"
    [] OTHER -> c

lower(s) == [i \in 1..Len(s) |-> LowerChar(s[i])]

endswith(s, suffix) ==
  /\ Len(suffix) <= Len(s)
  /\ SubSeq(s, Len(s) - Len(suffix) + 1, Len(s)) = suffix

text_extensions == { <<".", "t", "x", "t">>, <<".", "m", "d">> }

\* The test of line 29 without its "not".
HasNoTextExtension(name) ==
  ~ \E ext \in text_extensions : endswith(lower(name), ext)

\* Line 29: any(filename.lower().endswith(ext) for ext in text_extensions)
HasTextExtension(name) ==
  \E ext \in text_extensions : endswith(lower(name), ext)

\* The character os.listdir gives for a byte of a file name that is not
\* valid in the file system encoding: a lone surrogate.
Surrogate == "U+DCFF"

\* print(...) of a text holding this name succeeds: sys.stdout encodes
\* strictly, and a lone surrogate cannot be encoded.
Printable(name) == \A i \in 1..Len(name) : name[i] # Surrogate

\* nl as chosen by lines 11-16.
ResolveNl(nt, p) ==
  IF nt = "lf" THEN <<"\n">>
  ELSE IF nt = "crlf" THEN <<"\r", "\n">>
  ELSE Linesep(p)

\* Line 35, with line1 = line2 = "".
line1 == <<>>

line2 == <<>>

NewContent(term, content) == line1 \o term \o line2 \o term \o content

----------------------------------------------------------------------------
\* The file system.

NotesTxt == <<"N", ".", "T", "X", "T">>

BadNameMd == <<Surrogate, ".", "M", "d">>

DataCsv == <<"b", ".", "c", "s", "v">>

\* Names an entry of the target directory can have.
Names == {NotesTxt, BadNameMd, DataCsv}

\* The file every subdirectory holds.
Inner == <<"i", ".", "t", "x", "t">>

Below(name) == name \o <<"/">> \o Inner

Paths == Names \cup {Below(n) : n \in Names}

Absent == [kind |-> "absent", content |-> <<>>]

File(bytes) == [kind |-> "file", content |-> bytes]

Dir == [kind |-> "dir", content |-> <<>>]

\* What a file is made of: the line terminators LF, CR and CR LF, the
\* letter 'h', and the byte 0xFF, which no UTF-8 sequence contains.
Tokens == { <<10>>, <<13>>, <<13, 10>>, <<104>>, <<255>> }

RECURSIVE Concat(_)
Concat(ts) == IF ts = <<>> THEN <<>> ELSE Head(ts) \o Concat(Tail(ts))

Contents == UNION { { Concat(ts) : ts \in [1..k -> Tokens] } : k \in 0..MaxTokens }

\* The number of tokens of a content: CR LF counts once.
RECURSIVE Weight(_)
Weight(bytes) ==
  IF bytes = <<>> THEN 0
  ELSE IF Len(bytes) >= 2 /\ bytes[1] = 13 /\ bytes[2] = 10
       THEN 1 + Weight(SubSeq(bytes, 3, Len(bytes)))
       ELSE 1 + Weight(Tail(bytes))

EntryChoices == {Absent, Dir} \cup {File(b) : b \in Contents}

RECURSIVE SumWeight(_, _)
SumWeight(d, S) ==
  IF S = {} THEN 0
  ELSE LET n == CHOOSE x \in S : TRUE
       IN Weight(d[n].content) + SumWeight(d, S \ {n})

\* The directories a run can start from.
Directories ==
  { d \in [Names -> EntryChoices] :
      /\ Cardinality({n \in Names : d[n].kind # "absent"}) <= MaxEntries
      /\ SumWeight(d, Names) <= MaxTokens }

\* The tree below a directory d: every subdirectory holds one text file.
Tree(d) ==
  [p \in Paths |->
     IF p \in Names THEN d[p]
     ELSE LET n == CHOOSE m \in Names : p = Below(m)
          IN IF d[n].kind = "dir" THEN File(<<104>>) ELSE Absent]

\* os.path.isdir(args.directory)
isdir(t) == t \in {"dir", "unlistable"}

\* os.path.exists(filepath)
exists(f, path) == f[path].kind # "absent"

\* os.path.isfile(filepath)
isfile(f, path) == f[path].kind = "file"

\* os.listdir(directory): the names directly inside the directory.
listdir(f) == {n \in Names : f[n].kind # "absent"}

Zero == [p \in Paths |-> 0]

No == [p \in Paths |-> FALSE]

----------------------------------------------------------------------------
\* Initial states: the arguments, the platform and the directory.

Init ==
  /\ \E d \in Directories :
       /\ fs = Tree(d)
       /\ target \in IF d = [n \in Names |-> Absent]
                     THEN {"missing", "file", "dir", "unlistable"}
                     ELSE {"dir"}
  /\ platform \in {"posix", "nt"}
  /\ newline_type \in {"lf", "crlf", "system"}
  /\ pc = "main"
  /\ nl = <<>>
  /\ pending = {}
  /\ filename = <<>>
  /\ original_content = <<>>
  /\ processed_files = 0
  /\ exitcode = 0
  /\ crash = "none"
  /\ reported = -1
  /\ before = fs
  /\ orig = fs
  /\ listed = FALSE
  /\ visits = Zero
  /\ opens = Zero
  /\ wrote = Zero
  /\ cut = No
  /\ counted = Zero
  /\ ioerr = No
  /\ rewrites = Zero
  /\ damaged = No
  /\ runs = 1
  /\ faults = 0

\* The environment makes one more call fail.
Fault ==
  /\ faults < MaxFaults
  /\ faults' = faults + 1

\* An exception nothing catches: traceback, exit status 1.
Uncaught(where) ==
  /\ pc' = "exit"
  /\ exitcode' = 1
  /\ crash' = where

inputs == <<platform, newline_type, target, orig, runs>>

ghosts == <<visits, opens, wrote, cut, counted, ioerr, rewrites, damaged>>

locals == <<nl, pending, filename, original_content, processed_files, listed>>

----------------------------------------------------------------------------
\* The entry point, lines 57-65.

\* Lines 58-64: a target that is no directory ends the process with status
\* 1; otherwise the directory is printed and insert_lines_to_files called.
CheckDirectory ==
  /\ pc = "main"
  /\ IF isdir(target)
     THEN /\ pc' = "begin"
          /\ UNCHANGED exitcode
     ELSE /\ pc' = "exit"
          /\ exitcode' = 1
  /\ UNCHANGED <<inputs, ghosts, locals, fs, before, crash, reported, faults>>

----------------------------------------------------------------------------
\* insert_lines_to_files, lines 6-47.

\* Lines 8-24: the terminator, the counter, and os.listdir(directory), which
\* is outside any try block.
Begin ==
  /\ pc = "begin"
  /\ nl' = ResolveNl(newline_type, platform)
  /\ processed_files' = 0
  /\ IF target = "unlistable"
     THEN /\ Uncaught("line 24")
          /\ UNCHANGED <<pending, listed>>
     ELSE /\ pending' = listdir(fs)
          /\ listed' = TRUE
          /\ pc' = "loop"
          /\ UNCHANGED <<exitcode, crash>>
  /\ UNCHANGED <<inputs, ghosts, fs, before, filename, original_content,
                 reported, faults>>

\* Lines 24-25: the next entry, in whatever order the listing has.
NextEntry ==
  /\ pc = "loop"
  /\ IF pending = {}
     THEN /\ pc' = "summary"
          /\ UNCHANGED <<pending, filename, visits>>
     ELSE \E f \in pending :
            /\ filename' = f
            /\ pending' = pending \ {f}
            /\ visits' = [visits EXCEPT ![f] = @ + 1]
            /\ pc' = "filter"
  /\ UNCHANGED <<inputs, fs, before, nl, original_content, processed_files,
                 listed, opens, wrote, cut, counted, ioerr, rewrites, damaged,
                 exitcode, crash, reported, faults>>

\* Lines 27-30: only a regular file with a text extension enters the try
\* block.
Filter ==
  /\ pc = "filter"
  /\ IF ~isfile(fs, filename) \/ ~HasTextExtension(filename)
     THEN pc' = "loop"
     ELSE pc' = "read"
  /\ UNCHANGED <<inputs, ghosts, locals, fs, before, exitcode, crash,
                 reported, faults>>

\* Lines 33-34: open for reading and read the whole file as UTF-8 text.
Read ==
  /\ pc = "read"
  /\ opens' = [opens EXCEPT ![filename] = @ + 1]
  /\ \/ /\ fs[filename].kind # "file"        \* FileNotFoundError, IsADirectoryError
        /\ ioerr' = [ioerr EXCEPT ![filename] = TRUE]
        /\ pc' = "except_other"
        /\ UNCHANGED <<original_content, faults>>
     \/ /\ fs[filename].kind = "file"        \* PermissionError, I/O error
        /\ Fault
        /\ ioerr' = [ioerr EXCEPT ![filename] = TRUE]
        /\ pc' = "except_other"
        /\ UNCHANGED original_content
     \/ /\ fs[filename].kind = "file"
        /\ ~Decodable(fs[filename].content)  \* UnicodeDecodeError
        /\ pc' = "except_decode"
        /\ UNCHANGED <<original_content, ioerr, faults>>
     \/ /\ fs[filename].kind = "file"
        /\ Decodable(fs[filename].content)
        /\ original_content' = TextRead(fs[filename].content)
        /\ pc' = "write"
        /\ UNCHANGED <<ioerr, faults>>
  /\ UNCHANGED <<inputs, fs, before, nl, pending, filename, processed_files,
                 listed, visits, wrote, cut, counted, rewrites, damaged,
                 exitcode, crash, reported>>

\* Lines 35-37: build the new content, open for writing (which creates or
\* truncates the file) and write it.
Write ==
  /\ pc = "write"
  /\ opens' = [opens EXCEPT ![filename] = @ + 1]
  /\ LET new_content == NewContent(nl, original_content)
         bytes == BytesWritten(new_content, platform)
     IN \/ /\ Fault                           \* open() raises: nothing touched
           /\ ioerr' = [ioerr EXCEPT ![filename] = TRUE]
           /\ pc' = "except_other"
           /\ UNCHANGED <<fs, wrote, cut, rewrites, damaged>>
        \/ /\ Fault                           \* write or close raises: the
           /\ \E k \in 0..(Len(bytes) - 1) :    \* file keeps a proper prefix
                fs' = [fs EXCEPT ![filename] = File(SubSeq(bytes, 1, k))]
           /\ ioerr' = [ioerr EXCEPT ![filename] = TRUE]
           /\ cut' = [cut EXCEPT ![filename] = TRUE]
           /\ damaged' = [damaged EXCEPT ![filename] = TRUE]
           /\ pc' = "except_other"
           /\ UNCHANGED <<wrote, rewrites>>
        \/ /\ fs' = [fs EXCEPT ![filename] = File(bytes)]
           /\ wrote' = [wrote EXCEPT ![filename] = @ + 1]
           /\ rewrites' = [rewrites EXCEPT ![filename] = @ + 1]
           /\ pc' = "notice"
           /\ UNCHANGED <<ioerr, cut, damaged, faults>>
  /\ UNCHANGED <<inputs, before, nl, pending, filename, original_content,
                 processed_files, listed, visits, counted, exitcode, crash,
                 reported>>

\* Lines 38-39: the per-file notice, inside the try block, then the counter.
Notice ==
  /\ pc = "notice"
  /\ IF Printable(filename)
     THEN /\ processed_files' = processed_files + 1
          /\ counted' = [counted EXCEPT ![filename] = @ + 1]
          /\ pc' = "loop"
     ELSE /\ pc' = "except_other"             \* print raises
          /\ UNCHANGED <<processed_files, counted>>
  /\ UNCHANGED <<inputs, fs, before, nl, pending, filename, original_content,
                 listed, visits, opens, wrote, cut, ioerr, rewrites, damaged,
                 exitcode, crash, reported, faults>>

\* Lines 41-42: the handler prints; an exception raised here is not caught.
ExceptDecode ==
  /\ pc = "except_decode"
  /\ IF Printable(filename)
     THEN /\ pc' = "loop"
          /\ UNCHANGED <<exitcode, crash>>
     ELSE Uncaught("line 42")
  /\ UNCHANGED <<inputs, ghosts, locals, fs, before, reported, faults>>

\* Lines 43-44.
ExceptOther ==
  /\ pc = "except_other"
  /\ IF Printable(filename)
     THEN /\ pc' = "loop"
          /\ UNCHANGED <<exitcode, crash>>
     ELSE Uncaught("line 44")
  /\ UNCHANGED <<inputs, ghosts, locals, fs, before, reported, faults>>

\* Lines 46-47: the summary; the function returns and the process ends.
Summary ==
  /\ pc = "summary"
  /\ reported' = processed_files
  /\ pc' = "exit"
  /\ exitcode' = 0
  /\ UNCHANGED <<inputs, ghosts, locals, fs, before, crash, faults>>

----------------------------------------------------------------------------
\* The environment.

\* Another process removes the file the loop is working on: before its
\* isfile test, or before one of its two open() calls.
EnvRemove ==
  /\ pc \in {"filter", "read", "write"}
  /\ fs[filename].kind = "file"
  /\ fs' = [fs EXCEPT ![filename] = Absent]
  /\ Fault
  /\ UNCHANGED <<inputs, ghosts, locals, pc, before, exitcode, crash, reported>>

\* The user runs the program again with the same arguments.
Rerun ==
  /\ pc = "exit"
  /\ exitcode = 0
  /\ runs < MaxRuns
  /\ runs' = runs + 1
  /\ pc' = "main"
  /\ before' = fs
  /\ nl' = <<>>
  /\ pending' = {}
  /\ listed' = FALSE
  /\ filename' = <<>>
  /\ original_content' = <<>>
  /\ processed_files' = 0
  /\ reported' = -1
  /\ visits' = Zero
  /\ opens' = Zero
  /\ wrote' = Zero
  /\ cut' = No
  /\ counted' = Zero
  /\ ioerr' = No
  /\ UNCHANGED <<platform, newline_type, target, orig, fs, exitcode, crash,
                 rewrites, damaged, faults>>

\* One invocation of the program.
Run ==
  \/ CheckDirectory
  \/ Begin
  \/ NextEntry
  \/ Filter
  \/ Read
  \/ Write
  \/ Notice
  \/ ExceptDecode
  \/ ExceptOther
  \/ Summary
  \/ EnvRemove

Next ==
  \/ Run
  \/ Rerun

\* A single invocation.
Spec == Init /\ [][Run]_vars

\* Repeated invocations with the same arguments.
SpecRerun == Init /\ [][Next]_vars

----------------------------------------------------------------------------
\* Properties.  They are stated over bytes and over the names themselves,
\* not through the operators the actions use.

\* The terminator of the run, as bytes.
Terminator ==
  CASE newline_type = "lf" -> <<10>>
    [] newline_type = "crlf" -> <<13, 10>>
    [] OTHER -> IF platform = "nt" THEN <<13, 10>> ELSE <<10>>

\* The names of the pool whose lowercased form ends with .txt or .md.
TextNames == {NotesTxt, BadNameMd}

\* No byte of the content is 0xFF.
IsText(bytes) == \A i \in 1..Len(bytes) : bytes[i] # 255

\* The file "hello" of the examples, one letter long.
Hello == <<104>>

\* The program has left this path as the run found it (another process may
\* have removed it).
Untouched(p) == fs[p].kind # "absent" => fs[p] = before[p]

\* The files whose content a completed write of this run replaced.
Rewritten == {p \in Paths : wrote[p] >= 1}

\* C1: every file whose read and write both succeeded holds terminator,
\* terminator, then its original content unaltered, whatever that content
\* was (empty, or holding CR, LF or CR LF).
C1_TwoTerminatorsThenOriginal ==
  \A n \in Names :
    wrote[n] = 1 =>
      fs[n].content = Terminator \o Terminator \o before[n].content

\* C2: the terminator is resolved from the newline policy alone (lf -> LF,
\* crlf -> CR LF, system -> the platform's separator), every file written in
\* the run starts with two of it, and a file holding "h" becomes LF LF h
\* under lf and CR LF CR LF h under crlf on either platform.
C2_TerminatorFromPolicy ==
  /\ listed =>
       nl = CASE newline_type = "lf" -> <<"\n">>
              [] newline_type = "crlf" -> <<"\r", "\n">>
              [] OTHER -> IF platform = "nt" THEN <<"\r", "\n">> ELSE <<"\n">>
  /\ \A n \in Names :
       wrote[n] = 1 =>
         /\ Len(fs[n].content) >= 2 * Len(Terminator)
         /\ SubSeq(fs[n].content, 1, 2 * Len(Terminator)) = Terminator \o Terminator
         /\ before[n] = File(Hello) /\ newline_type = "lf"
              => fs[n].content = <<10, 10, 104>>
         /\ before[n] = File(Hello) /\ newline_type = "crlf"
              => fs[n].content = <<13, 10, 13, 10, 104>>

\* C2 witness: under lf on the platform whose separator is CR LF, a file
\* that held "h" has been rewritten.
C2_Witness ==
  /\ platform = "nt"
  /\ newline_type = "lf"
  /\ pc = "exit"
  /\ \E n \in Names : wrote[n] = 1 /\ before[n] = File(Hello)

\* C3: an entry whose lowercased name ends with neither .txt nor .md keeps
\* its content, is never opened and never counted; nothing but a .txt or .md
\* entry is ever rewritten or counted; and when the directory holds no .txt
\* or .md entry the count is 0 and no content changes.
C3_OtherExtensionsUntouched ==
  /\ \A n \in Names \ TextNames :
       /\ Untouched(n)
       /\ opens[n] = 0
       /\ wrote[n] = 0
       /\ ~cut[n]
       /\ counted[n] = 0
  /\ \A p \in Paths : (wrote[p] > 0 \/ counted[p] > 0) => p \in TextNames
  /\ (\A n \in TextNames : before[n].kind = "absent") =>
       /\ processed_files = 0
       /\ reported \in {-1, 0}
       /\ \A p \in Paths : Untouched(p)

\* C3 witness: a run over a directory holding a .csv file and a .TXT file
\* has ended with the .TXT file rewritten and counted.
C3_Witness ==
  /\ pc = "exit"
  /\ before[DataCsv].kind = "file"
  /\ visits[DataCsv] = 1
  /\ wrote[NotesTxt] = 1
  /\ counted[NotesTxt] = 1
  /\ reported = 1

\* C4: when a run over a listed directory has ended, every regular file
\* named *.TXT or *.Md that is decodable and met no I/O error has been
\* rewritten once and counted once.
C4_TextFilesCountedOnce ==
  (pc = "exit" /\ listed) =>
    \A n \in TextNames :
      (before[n].kind = "file" /\ IsText(before[n].content) /\ ~ioerr[n])
        => wrote[n] = 1 /\ counted[n] = 1

\* C5: a file holding an undecodable byte keeps its bytes, is never opened
\* for writing, is never counted, and the run does not end in the handler
\* of the decoding error.
C5_UndecodableSkipped ==
  \A n \in Names :
    (before[n].kind = "file" /\ ~IsText(before[n].content)) =>
      /\ Untouched(n)
      /\ opens[n] <= 1
      /\ wrote[n] = 0
      /\ ~cut[n]
      /\ counted[n] = 0
      /\ ~(pc = "exit" /\ crash = "line 42" /\ filename = n)

\* C6: when a run over a listed directory has ended, it ended with the
\* summary, every entry of the listing was visited exactly once, and every
\* candidate file that met no failure of its own was rewritten.
C6_FailureIsolation ==
  /\ \A p \in Paths : visits[p] <= 1
  /\ (pc = "exit" /\ listed) =>
       /\ crash = "none"
       /\ reported # -1
       /\ \A n \in Names : before[n].kind # "absent" => visits[n] = 1
       /\ \A n \in TextNames :
            (before[n].kind = "file" /\ IsText(before[n].content) /\ ~ioerr[n])
              => wrote[n] = 1

\* C7: the process ends with status 1, having opened and changed nothing,
\* when the target is missing or no directory, and with status 0 whenever
\* the target is an existing directory.
C7_ExitCodes ==
  pc = "exit" =>
    IF target \in {"missing", "file"}
    THEN /\ exitcode = 1
         /\ ~listed
         /\ opens = Zero
         /\ fs = before
    ELSE exitcode = 0

\* C8: nothing below a subdirectory is visited, opened, changed or counted,
\* and an entry that is a directory is never opened, changed or counted,
\* whatever its name.
C8_SubdirectoriesUntouched ==
  /\ \A n \in Names :
       /\ fs[Below(n)] = before[Below(n)]
       /\ visits[Below(n)] = 0
       /\ opens[Below(n)] = 0
       /\ wrote[Below(n)] = 0
       /\ counted[Below(n)] = 0
  /\ \A n \in Names :
       before[n].kind = "dir" =>
         /\ fs[n] = before[n]
         /\ opens[n] = 0
         /\ wrote[n] = 0
         /\ counted[n] = 0

\* C8 witness: a run has printed its summary after visiting a directory
\* named N.TXT that holds a text file.
C8_Witness ==
  /\ pc = "exit"
  /\ reported = 0
  /\ before[NotesTxt].kind = "dir"
  /\ visits[NotesTxt] = 1
  /\ fs[Below(NotesTxt)] = File(Hello)

\* C9: a file rewritten by both of two runs, and never left truncated,
\* holds four terminators followed by its original content, and differs
\* from what the first run left.
C9_TwoRunsFourTerminators ==
  \A n \in Names :
    (rewrites[n] = 2 /\ ~damaged[n]) =>
      /\ fs[n].content =
           Terminator \o Terminator \o Terminator \o Terminator \o orig[n].content
      /\ fs[n].content # before[n].content

\* C10: between iterations and at the end, a file has been counted exactly
\* when its content was replaced, and the reported count is the number of
\* files replaced.
C10_CountEqualsRewritten ==
  /\ \A p \in Paths : counted[p] <= wrote[p] /\ wrote[p] <= 1
  /\ pc \in {"loop", "summary", "exit"} =>
       \A p \in Paths : counted[p] = wrote[p]
  /\ reported # -1 => reported = Cardinality(Rewritten)

====
